---- MODULE Spec2Model ----
(***************************************************************************)
(* A model of the branch-diff tree view: the GitService diff orchestrator  *)
(* (getDiffWithConflictDetection) and the BranchTreeProvider (selection    *)
(* state, cached DiffResult, folder tree, root render, folder expansion).  *)
(*                                                                         *)
(* JavaScript strings are TLA+ strings (TLC evaluates Len, \o and SubSeq   *)
(* on them).  An optional value (T | undefined) is a sequence of length    *)
(* at most one: undefined is << >>, a defined value v is << v >>.          *)
(***************************************************************************)
EXTENDS Integers, Sequences, FiniteSets, Bags, TLC

VARIABLES
    source,       \* BranchTreeProvider._source
    target,       \* BranchTreeProvider._target (optional)
    diffResult,   \* BranchTreeProvider._diffResult (optional)
    folderTree,   \* BranchTreeProvider._folderTree (optional)
    repoOpen,     \* GitService.getRepository() !== undefined
    pending,      \* root renders suspended in `await getDiffWithConflictDetection`
    dirty,        \* onDidChangeTreeData has fired and the view has not re-rendered
    fireSeen,     \* what a listener saw of the cache when the signal last fired
    lastCall,     \* the operation that took the last step, with what it returned
    diffRequest,  \* history: the (source, target) of the call that filled diffResult
    epoch,        \* history: renders and collaborator calls since the last invalidation
    probeIn,      \* arguments of the pure function under check
    probeOut      \* its result (optional)

vars == << source, target, diffResult, folderTree, repoOpen, pending, dirty,
           fireSeen, lastCall, diffRequest, epoch, probeIn, probeOut >>

providerVars == << source, target, diffResult, folderTree, repoOpen, pending,
                   dirty, fireSeen, lastCall, diffRequest, epoch >>

probeVars == << probeIn, probeOut >>

-----------------------------------------------------------------------------
(* Optional values *)

undefined == << >>

Some(v) == << v >>

IsDefined(o) == o # << >>

Get(o) == o[1]

-----------------------------------------------------------------------------
(* Bounds *)

\* longest list of changes handed to buildFolderTree
MaxChanges == 2

\* most root renders suspended in the collaborator call at once
MaxPending == 2

\* most fragments concatenated into one collaborator error message
MaxFrags == 2

-----------------------------------------------------------------------------
(* String.prototype methods used by the code *)

startsWith(s, p) == Len(p) <= Len(s) /\ SubSeq(s, 1, Len(p)) = p

\* s.substring(n)
substring(s, n) == SubSeq(s, n + 1, Len(s))

includes(s, p) == \E i \in 0..(Len(s) - Len(p)) : SubSeq(s, i + 1, i + Len(p)) = p

charAt(s, i) == SubSeq(s, i, i)

RECURSIVE split(_, _)
\* s.split(sep), sep a set of one-character separators; "" splits to [""]
split(s, seps) ==
    LET hits == { i \in 1..Len(s) : charAt(s, i) \in seps }
    IN  IF hits = {} THEN << s >>
        ELSE LET i == CHOOSE h \in hits : \A k \in hits : h <= k
             IN  << SubSeq(s, 1, i - 1) >> \o split(SubSeq(s, i + 1, Len(s)), seps)

\* a.pop(): the array without its last element, and that element (undefined if none)
popRest(a) == SubSeq(a, 1, Len(a) - 1)

popped(a) == IF Len(a) = 0 THEN undefined ELSE Some(a[Len(a)])

-----------------------------------------------------------------------------
(* Changes reported by the host's git extension *)

Change(fsPath, path, status) ==
    [uri |-> [fsPath |-> fsPath, path |-> path], status |-> status]

\* a pool of changes: files at the root, in nested and sibling folders, written
\* with either separator, and outside the repository root
ChangePool ==
    { Change("/r/README.md", "/r/README.md", "DELETED"),
      Change("/r/src/a.ts", "/r/src/a.ts", "MODIFIED"),
      Change("/r/src/sub/b.ts", "/r/src/sub/b.ts", "INDEX_ADDED"),
      Change("/r/lib/a.ts", "/r/lib/a.ts", "INDEX_RENAMED"),
      Change("/r/src/B.ts", "/r/src/B.ts", "UNTRACKED"),
      Change("/x/src/a.ts", "/x/src/a.ts", "INDEX_MODIFIED"),
      Change("/rx/a.ts", "/rx/a.ts", "INDEX_DELETED"),
      Change("c:\\r\\src\\a.ts", "/c:/r/src/a.ts", "BOTH_MODIFIED") }

\* rootUri.fsPath of the repository; "" stands for `getRepository()` undefined
RepoRoots == { "/r", "c:\\r", "" }

RECURSIVE SeqsUpTo(_, _)
SeqsUpTo(S, n) ==
    IF n = 0 THEN { << >> }
    ELSE LET shorter == SeqsUpTo(S, n - 1)
         IN  shorter \cup { Append(q, x) : q \in { r \in shorter : Len(r) = n - 1 }, x \in S }

ChangeLists == SeqsUpTo(ChangePool, MaxChanges)

-----------------------------------------------------------------------------
(* BranchTreeProvider.buildFolderTree *)

FolderNode(name, path) ==
    [name |-> name, path |-> path, children |-> << >>, files |-> << >>]

\* the relative path without the test of line 630: the root's length is cut off
\* whatever the path starts with
relativePathRootAssumed(fsPath, repoRoot) ==
    LET rest == substring(fsPath, Len(repoRoot))
    IN  IF startsWith(rest, "/") \/ startsWith(rest, "\\")
        THEN substring(rest, 1)
        ELSE rest

\* lines 629-635: the path relative to the repository root
relativePath(fsPath, repoRoot) ==
    IF startsWith(fsPath, repoRoot)
    THEN LET rest == substring(fsPath, Len(repoRoot))
         IN  IF startsWith(rest, "/") \/ startsWith(rest, "\\")
             THEN substring(rest, 1)
             ELSE rest
    ELSE fsPath

RECURSIVE addFileNoReuse(_, _, _, _)
\* addFile without line 647: the folder is created anew on every visit
addFileNoReuse(current, parts, currentPath, change) ==
    IF parts = << >>
    THEN [current EXCEPT !.files = Append(@, change)]
    ELSE LET part == Head(parts)
             nextPath == IF currentPath # "" THEN currentPath \o "/" \o part ELSE part
         IN  [current EXCEPT
                !.children = (part :> addFileNoReuse(FolderNode(part, nextPath),
                                                     Tail(parts), nextPath, change)) @@ @]

RECURSIVE addFile(_, _, _, _)
\* lines 641-659: walk `parts` from `current`, creating the missing folders,
\* and push the change onto the files of the folder reached
addFile(current, parts, currentPath, change) ==
    IF parts = << >>
    THEN [current EXCEPT !.files = Append(@, change)]
    ELSE LET part == Head(parts)
             nextPath == IF currentPath # "" THEN currentPath \o "/" \o part ELSE part
             child == IF part \in DOMAIN current.children
                      THEN current.children[part]
                      ELSE FolderNode(part, nextPath)
         IN  [current EXCEPT
                !.children = (part :> addFile(child, Tail(parts), nextPath, change)) @@ @]

RECURSIVE buildFrom(_, _, _)
buildFrom(root, changes, repoRoot) ==
    IF changes = << >> THEN root
    ELSE LET change == Head(changes)
             parts == popRest(split(relativePath(change.uri.fsPath, repoRoot), {"/", "\\"}))
         IN  buildFrom(addFile(root, parts, "", change), Tail(changes), repoRoot)

buildFolderTree(changes, repoRoot) == buildFrom(FolderNode("", ""), changes, repoRoot)

-----------------------------------------------------------------------------
(* String.prototype.localeCompare and Array.prototype.sort *)

UpperCase == "ABCDEFGHIJKLMNOPQRSTUVWXYZ"

LowerCase == "abcdefghijklmnopqrstuvwxyz"

\* the collation order of the characters of a name, letters without their case
CollationOrder == "_-:./\\0123456789abcdefghijklmnopqrstuvwxyz"

indexOf(s, c) ==
    IF \E i \in 1..Len(s) : charAt(s, i) = c
    THEN CHOOSE i \in 1..Len(s) : charAt(s, i) = c /\ \A k \in 1..(i - 1) : charAt(s, k) # c
    ELSE 0

isUpper(c) == indexOf(UpperCase, c) > 0

toLowerChar(c) == IF isUpper(c) THEN charAt(LowerCase, indexOf(UpperCase, c)) ELSE c

RECURSIVE toLowerCase(_)
toLowerCase(s) ==
    IF Len(s) = 0 THEN s ELSE toLowerChar(charAt(s, 1)) \o toLowerCase(substring(s, 1))

\* the collation keys of a character: its letter ("primary"), then its case,
\* lower before upper ("case")
collationKey(level, c) ==
    IF level = "primary" THEN indexOf(CollationOrder, toLowerChar(c))
    ELSE IF isUpper(c) THEN 1 ELSE 0

RECURSIVE compareBy(_, _, _)
\* the sign of the first difference of two strings at one collation level,
\* a proper prefix sorting first
compareBy(level, a, b) ==
    IF Len(a) = 0 /\ Len(b) = 0 THEN 0
    ELSE IF Len(a) = 0 THEN -1
    ELSE IF Len(b) = 0 THEN 1
    ELSE LET ka == collationKey(level, charAt(a, 1))
             kb == collationKey(level, charAt(b, 1))
         IN  IF ka < kb THEN -1
             ELSE IF ka > kb THEN 1
             ELSE compareBy(level, substring(a, 1), substring(b, 1))

\* a.localeCompare(b): letters first, their case breaking ties
localeCompare(a, b) ==
    LET primary == compareBy("primary", a, b)
    IN  IF primary # 0 THEN primary ELSE compareBy("case", a, b)

-----------------------------------------------------------------------------
(* BranchTreeItem *)

\* setupFileDecoration without the case of line 420
setupFileDecorationIndexOnly(change) ==
    IF ~IsDefined(change) THEN undefined
    ELSE LET status == Get(change).status
         IN  IF status = "INDEX_ADDED" THEN Some("A")
             ELSE IF status \in {"INDEX_DELETED", "DELETED"} THEN Some("D")
             ELSE IF status \in {"INDEX_MODIFIED", "MODIFIED"} THEN Some("M")
             ELSE IF status = "INDEX_RENAMED" THEN Some("R")
             ELSE undefined

\* lines 413-435: the status letter of a file item
setupFileDecoration(change) ==
    IF ~IsDefined(change) THEN undefined
    ELSE LET status == Get(change).status
         IN  IF status \in {"INDEX_ADDED", "UNTRACKED"} THEN Some("A")
             ELSE IF status \in {"INDEX_DELETED", "DELETED"} THEN Some("D")
             ELSE IF status \in {"INDEX_MODIFIED", "MODIFIED"} THEN Some("M")
             ELSE IF status = "INDEX_RENAMED" THEN Some("R")
             ELSE undefined

\* lines 386-411
setupIcon(itemType) ==
    IF itemType = "source" THEN Some("git-commit")
    ELSE IF itemType = "target" THEN Some("git-compare")
    ELSE IF itemType = "conflict" THEN Some("warning")
    ELSE IF itemType = "info" THEN Some("info")
    ELSE undefined

\* lines 437-449
setupCommand(itemType) ==
    IF itemType = "source"
    THEN Some([command |-> "branch-diff.changeSource", title |-> "Change Source",
               arguments |-> << >>])
    ELSE IF itemType = "target"
    THEN Some([command |-> "branch-diff.changeTarget", title |-> "Change Target",
               arguments |-> << >>])
    ELSE undefined

\* lines 371-384: new BranchTreeItem(label, itemType, collapsibleState, folderPath, change)
BranchTreeItem(label, itemType, collapsibleState, folderPath, change) ==
    [label |-> label,
     itemType |-> itemType,
     collapsibleState |-> collapsibleState,
     folderPath |-> folderPath,
     change |-> change,
     contextValue |-> itemType,
     iconPath |-> setupIcon(itemType),
     description |-> IF itemType = "file" THEN setupFileDecoration(change) ELSE undefined,
     command |-> setupCommand(itemType),
     resourceUri |-> undefined,
     tooltip |-> undefined]

-----------------------------------------------------------------------------
(* BranchTreeProvider.createTreeItems *)

\* the values of a Map, as an array (the order of insertion is not modelled:
\* the folders are sorted by name before use and their names are distinct)
RECURSIVE valuesOf(_)
valuesOf(children) ==
    IF DOMAIN children = {} THEN << >>
    ELSE LET k == CHOOSE x \in DOMAIN children : TRUE
         IN  << children[k] >> \o valuesOf([x \in DOMAIN children \ {k} |-> children[x]])

lastSegment(p) == popped(split(p, {"/"}))

\* lines 669-671: the comparator of the folders
compareFolders(a, b) == localeCompare(a.name, b.name)

\* lines 673-677: `|| ''` replaces an empty or missing last segment by ''
compareFiles(a, b) ==
    LET aLast == lastSegment(a.uri.path)
        bLast == lastSegment(b.uri.path)
        aName == IF IsDefined(aLast) /\ Get(aLast) # "" THEN Get(aLast) ELSE ""
        bName == IF IsDefined(bLast) /\ Get(bLast) # "" THEN Get(bLast) ELSE ""
    IN  localeCompare(aName, bName)

compare(by, a, b) == IF by = "folders" THEN compareFolders(a, b) ELSE compareFiles(a, b)

RECURSIVE insertSorted(_, _, _)
insertSorted(by, sorted, x) ==
    IF sorted = << >> THEN << x >>
    ELSE IF compare(by, Head(sorted), x) <= 0
         THEN << Head(sorted) >> \o insertSorted(by, Tail(sorted), x)
         ELSE << x >> \o sorted

RECURSIVE sort(_, _)
\* a.sort(comparator): stable, elements that compare equal keep their order
sort(by, a) ==
    IF a = << >> THEN << >>
    ELSE insertSorted(by, sort(by, popRest(a)), a[Len(a)])

\* the files left in the order buildFolderTree pushed them
filesAsPushed(node) == node.files

\* line 673: node.files.sort(...) sorts the node's own array in place
sortedFilesOf(node) == sort("files", node.files)

folderItem(folder, repoRoot) ==
    [BranchTreeItem(folder.name, "folder", "Expanded", Some(folder.path), undefined)
        EXCEPT !.resourceUri = Some([file |-> repoRoot \o "/" \o folder.path])]

fileItem(change, targetNow, sourceNow) ==
    LET last == lastSegment(change.uri.path)
        fileName == IF IsDefined(last) /\ Get(last) # "" THEN Get(last) ELSE change.uri.path
    IN  [BranchTreeItem(fileName, "file", "None", undefined, Some(change))
            EXCEPT !.resourceUri = Some(change.uri),
                   !.tooltip = Some(change.uri.fsPath),
                   !.command = Some([command |-> "branch-diff.showFileDiff",
                                     title |-> "Show Diff",
                                     arguments |-> << change, targetNow, sourceNow >>])]

\* lines 665-717: the folders by name, then the files by name
createTreeItems(node, repoRoot, targetNow, sourceNow) ==
    LET sortedFolders == sort("folders", valuesOf(node.children))
        sortedFiles == sortedFilesOf(node)
    IN  [i \in 1..Len(sortedFolders) |-> folderItem(sortedFolders[i], repoRoot)]
        \o [i \in 1..Len(sortedFiles) |-> fileItem(sortedFiles[i], targetNow, sourceNow)]

-----------------------------------------------------------------------------
(* BranchTreeProvider.getFolderChildren *)

RECURSIVE findFolderDeepest(_, _)
\* the walk stopping at the last folder found instead of giving up (line 731)
findFolderDeepest(current, parts) ==
    IF parts = << >> THEN Some(current)
    ELSE IF Head(parts) \in DOMAIN current.children
    THEN findFolderDeepest(current.children[Head(parts)], Tail(parts))
    ELSE Some(current)

RECURSIVE findFolder(_, _)
\* lines 726-734: walk `parts` down from `current`; undefined when a part has
\* no child of that name
findFolder(current, parts) ==
    IF parts = << >> THEN Some(current)
    ELSE IF Head(parts) \in DOMAIN current.children
    THEN findFolder(current.children[Head(parts)], Tail(parts))
    ELSE undefined

RECURSIVE takeFilesAt(_, _)
\* the files taken out of the node at `parts` (splice) instead of sorted in place
takeFilesAt(node, parts) ==
    IF parts = << >> THEN [node EXCEPT !.files = << >>]
    ELSE [node EXCEPT !.children[Head(parts)] = takeFilesAt(@, Tail(parts))]

RECURSIVE sortFilesAt(_, _)
\* the tree after createTreeItems has sorted the files of the node at `parts`
sortFilesAt(node, parts) ==
    IF parts = << >> THEN [node EXCEPT !.files = sortedFilesOf(node)]
    ELSE [node EXCEPT !.children[Head(parts)] = sortFilesAt(@, Tail(parts))]

\* lines 719-737: the items returned and the folder tree left in the provider
getFolderChildren(p, folderPath, repoRoot) ==
    IF ~IsDefined(p.folderTree)
    THEN [items |-> << >>, folderTree |-> p.folderTree]
    ELSE LET parts == split(folderPath, {"/"})
             found == findFolder(Get(p.folderTree), parts)
         IN  IF ~IsDefined(found)
             THEN [items |-> << >>, folderTree |-> p.folderTree]
             ELSE [items |-> createTreeItems(Get(found), repoRoot, p.target, p.source),
                   folderTree |-> Some(sortFilesAt(Get(p.folderTree), parts))]

-----------------------------------------------------------------------------
(* The host's git extension: repository, branches, replies to a diff call *)

\* repo.rootUri.fsPath of the open repository
RepoRootPath == "/r"

\* repo.state.HEAD.name
HeadName == "feature"

BranchNames == { "main", "origin/dev" }

WorkingTree == [type |-> "workingTree"]

Branch(name) == [type |-> "branch", branchName |-> name]

\* the selections DiffCommands.changeSource can make
SourceSelections == { WorkingTree } \cup { Branch(b) : b \in BranchNames }

\* pieces of the error text of a failed diff
Fragments ==
    { "bad revision", "unknown revision", "not a valid object name",
      "conflict", "CONFLICT", "BOTH_MODIFIED",
      "Bad Revision", "Not a valid object name", "Conflict",
      "network timeout", "fatal: " }

RECURSIVE concat(_)
concat(parts) == IF parts = << >> THEN "" ELSE Head(parts) \o concat(Tail(parts))

\* the error texts: up to MaxFrags fragments in a row, the empty text among them
Messages == { concat(parts) : parts \in SeqsUpTo(Fragments, MaxFrags) }

\* what a failed call throws: an Error with a message, or a bare string
Thrown(isError, text) == [isError |-> isError, text |-> text]

Succeeds(changes) == [ok |-> TRUE, changes |-> changes]

Fails(thrown) == [ok |-> FALSE, thrown |-> thrown]

Replies ==
    { Succeeds(cs) : cs \in SeqsUpTo(ChangePool, 1) }
    \cup { Fails(Thrown(e, m)) : e \in BOOLEAN, m \in Messages }

-----------------------------------------------------------------------------
(* GitService.getDiffWithConflictDetection *)

DiffResult(changes, hasConflict, error) ==
    [changes |-> changes, hasConflict |-> hasConflict, error |-> error]

Fulfilled(value) == [state |-> "fulfilled", value |-> value]

Rejected(reason) == [state |-> "rejected", reason |-> reason]

\* the collaborator call with the arguments of diffBetween in the other order
collaboratorCallSourceFirst(src, targetBranch) ==
    IF src.type = "workingTree"
    THEN Some([method |-> "diffWith", args |-> << targetBranch >>])
    ELSE IF "branchName" \in DOMAIN src /\ src.branchName # ""
    THEN Some([method |-> "diffBetween", args |-> << src.branchName, targetBranch >>])
    ELSE undefined

\* lines 208-214: the collaborator call made for a selection, if any
collaboratorCall(src, targetBranch) ==
    IF src.type = "workingTree"
    THEN Some([method |-> "diffWith", args |-> << targetBranch >>])
    ELSE IF "branchName" \in DOMAIN src /\ src.branchName # ""
    THEN Some([method |-> "diffBetween", args |-> << targetBranch, src.branchName >>])
    ELSE undefined

\* line 218
errorMessageOf(thrown) == thrown.text

\* isBadRevision without line 225
isBadRevisionTwoPhrases(errorMessage) ==
    \/ includes(errorMessage, "bad revision")
    \/ includes(errorMessage, "unknown revision")

\* lines 222-225
isBadRevision(errorMessage) ==
    \/ includes(errorMessage, "bad revision")
    \/ includes(errorMessage, "unknown revision")
    \/ includes(errorMessage, "not a valid object name")

\* isConflict without line 230
isConflictTwoPhrases(errorMessage) ==
    \/ includes(errorMessage, "conflict")
    \/ includes(errorMessage, "CONFLICT")

\* lines 227-230
isConflict(errorMessage) ==
    \/ includes(errorMessage, "conflict")
    \/ includes(errorMessage, "CONFLICT")
    \/ includes(errorMessage, "BOTH_MODIFIED")

\* the catch block testing for a conflict before the bad revision
classifyErrorConflictFirst(thrown, targetBranch) ==
    LET errorMessage == errorMessageOf(thrown)
    IN  IF isConflict(errorMessage)
        THEN Fulfilled(DiffResult(<< >>, TRUE,
                 Some("Merge conflict detected between branches")))
        ELSE IF isBadRevision(errorMessage)
        THEN Fulfilled(DiffResult(<< >>, FALSE,
                 Some("Branch not found: " \o targetBranch
                      \o ". Try running 'git fetch' first.")))
        ELSE Fulfilled(DiffResult(<< >>, FALSE, Some(errorMessage)))

\* the catch block with a fixed text in place of line 251
classifyErrorFixedText(thrown, targetBranch) ==
    LET errorMessage == errorMessageOf(thrown)
    IN  IF isBadRevision(errorMessage)
        THEN Fulfilled(DiffResult(<< >>, FALSE,
                 Some("Branch not found: " \o targetBranch
                      \o ". Try running 'git fetch' first.")))
        ELSE IF isConflict(errorMessage)
        THEN Fulfilled(DiffResult(<< >>, TRUE,
                 Some("Merge conflict detected between branches")))
        ELSE Fulfilled(DiffResult(<< >>, FALSE, Some("Failed to get diff")))

\* lines 217-253: the catch block
classifyError(thrown, targetBranch) ==
    LET errorMessage == errorMessageOf(thrown)
    IN  IF isBadRevision(errorMessage)
        THEN Fulfilled(DiffResult(<< >>, FALSE,
                 Some("Branch not found: " \o targetBranch
                      \o ". Try running 'git fetch' first.")))
        ELSE IF isConflict(errorMessage)
        THEN Fulfilled(DiffResult(<< >>, TRUE,
                 Some("Merge conflict detected between branches")))
        ELSE Fulfilled(DiffResult(<< >>, FALSE, Some(errorMessage)))

\* lines 192-254, `reply` being how the collaborator call it makes ends
getDiffWithConflictDetection(src, targetBranch, repo, reply) ==
    IF ~repo
    THEN Fulfilled(DiffResult(<< >>, FALSE, Some("No repository found")))
    ELSE IF ~IsDefined(collaboratorCall(src, targetBranch))
    THEN Fulfilled(DiffResult(<< >>, FALSE, undefined))
    ELSE IF reply.ok
    THEN Fulfilled(DiffResult(reply.changes, FALSE, undefined))
    ELSE classifyError(reply.thrown, targetBranch)

-----------------------------------------------------------------------------
(* BranchTreeProvider: fields, mutators, root render *)

\* an optional string that JavaScript takes for true
Truthy(o) == IsDefined(o) /\ Get(o) # ""

Fields ==
    [source |-> source, target |-> target, diffResult |-> diffResult,
     folderTree |-> folderTree, dirty |-> dirty, fireSeen |-> fireSeen]

\* refresh without line 492: the cached result survives
refreshKeepsResult(p) ==
    LET cleared == [p EXCEPT !.folderTree = undefined]
    IN  [cleared EXCEPT
            !.dirty = TRUE,
            !.fireSeen = Some([diffResult |-> cleared.diffResult,
                               folderTree |-> cleared.folderTree])]

\* refresh firing before it clears
refreshFiresFirst(p) ==
    LET fired == [p EXCEPT
                    !.dirty = TRUE,
                    !.fireSeen = Some([diffResult |-> p.diffResult,
                                       folderTree |-> p.folderTree])]
    IN  [fired EXCEPT !.diffResult = undefined, !.folderTree = undefined]

\* lines 491-495: clear the cache, then fire onDidChangeTreeData
refresh(p) ==
    LET cleared == [p EXCEPT !.diffResult = undefined, !.folderTree = undefined]
    IN  [cleared EXCEPT
            !.dirty = TRUE,
            !.fireSeen = Some([diffResult |-> cleared.diffResult,
                               folderTree |-> cleared.folderTree])]

\* setSource forgetting the target along with the cache
setSourceClearsTarget(p, s) ==
    refresh([p EXCEPT !.source = s, !.target = undefined, !.diffResult = undefined,
                      !.folderTree = undefined])

\* lines 477-482
setSource(p, s) ==
    refresh([p EXCEPT !.source = s, !.diffResult = undefined, !.folderTree = undefined])

\* lines 484-489
setTarget(p, t) ==
    refresh([p EXCEPT !.target = Some(t), !.diffResult = undefined,
                      !.folderTree = undefined])

\* lines 739-745
getSourceLabel(p) ==
    IF p.source.type = "workingTree"
    THEN "Working Tree (" \o HeadName \o ")"
    ELSE IF "branchName" \in DOMAIN p.source /\ p.source.branchName # ""
    THEN p.source.branchName
    ELSE "Unknown"

Plain(label, itemType) == BranchTreeItem(label, itemType, "None", undefined, undefined)

\* headItems pushing the separator before the check of line 548
headItemsSeparatorFirst(p) ==
    LET targetLabel == IF Truthy(p.target) THEN Get(p.target) ELSE "(click to select)"
    IN  << Plain("Source: " \o getSourceLabel(p), "source"),
           Plain("Target: " \o targetLabel, "target"),
           Plain("-----------------", "separator") >>

\* lines 524-558: the items pushed before the diff is needed (the separator's
\* label, a row of box-drawing characters, is written with hyphens)
headItems(p) ==
    LET targetLabel == IF Truthy(p.target) THEN Get(p.target) ELSE "(click to select)"
        selectors == << Plain("Source: " \o getSourceLabel(p), "source"),
                        Plain("Target: " \o targetLabel, "target") >>
    IN  IF ~Truthy(p.target) THEN selectors
        ELSE Append(selectors, Plain("-----------------", "separator"))

\* lines 564-615: the rest of getRootItems once this._diffResult is set;
\* the items returned and the folder tree left in the provider
restOfRootItems(p, items, repoRoot) ==
    LET result == Get(p.diffResult)
        fileCount == Len(result.changes)
    IN  IF result.hasConflict
        THEN LET conflictItem ==
                     [Plain("Conflict detected - cannot diff between branches", "conflict")
                        EXCEPT !.tooltip =
                            IF Truthy(result.error) THEN result.error
                            ELSE Some("Merge conflict detected between branches")]
             IN  [items |-> Append(items, conflictItem), folderTree |-> p.folderTree]
        ELSE IF Truthy(result.error)
        THEN [items |-> Append(items, Plain("Error: " \o Get(result.error), "conflict")),
              folderTree |-> p.folderTree]
        ELSE IF fileCount = 0
        THEN [items |-> Append(items, Plain("No changes", "info")),
              folderTree |-> p.folderTree]
        ELSE LET countItem ==
                     Plain(ToString(fileCount) \o " file"
                           \o (IF fileCount > 1 THEN "s" ELSE "") \o " changed", "info")
                 tree == buildFolderTree(result.changes, repoRoot)
             IN  [items |-> Append(items, countItem)
                            \o createTreeItems(tree, repoRoot, p.target, p.source),
                  folderTree |-> Some([tree EXCEPT !.files = sortedFilesOf(tree)])]

\* the render asking again when the cached result carries an error
beginRootItemsRetryOnError(p) ==
    [items |-> headItems(p),
     next |-> IF ~Truthy(p.target) THEN "return"
              ELSE IF ~IsDefined(p.diffResult) \/ IsDefined(Get(p.diffResult).error)
              THEN "await"
              ELSE "rest"]

\* lines 524-563 up to the first suspension: the items so far, and whether the
\* render returns them, goes on with the cached result, or awaits a diff
beginRootItems(p) ==
    [items |-> headItems(p),
     next |-> IF ~Truthy(p.target) THEN "return"
              ELSE IF ~IsDefined(p.diffResult) THEN "await"
              ELSE "rest"]

\* lines 625 and 680: getRepository()?.rootUri.fsPath || ''
repoRootOf(repo) == IF repo THEN RepoRootPath ELSE ""

\* line 562 once the awaited promise has settled, then lines 564-615: the
\* provider's fields afterwards and the promise getRootItems returns
resumeRootItems(p, items, outcome, repoRoot) ==
    IF outcome.state = "fulfilled"
    THEN LET stored == [p EXCEPT !.diffResult = Some(outcome.value)]
             rest == restOfRootItems(stored, items, repoRoot)
         IN  [fields |-> [stored EXCEPT !.folderTree = rest.folderTree],
              returned |-> Fulfilled(rest.items)]
    ELSE [fields |-> p, returned |-> Rejected(outcome.reason)]

-----------------------------------------------------------------------------
(* The provider as a state machine *)

\* what the collaborator answers in the runs of the provider
ProviderChangeLists ==
    { << >>,
      << Change("/r/src/a.ts", "/r/src/a.ts", "MODIFIED"),
         Change("/r/src/sub/b.ts", "/r/src/sub/b.ts", "INDEX_ADDED"),
         Change("/r/README.md", "/r/README.md", "DELETED") >>,
      << Change("/x/src/a.ts", "/x/src/a.ts", "INDEX_MODIFIED") >> }

ProviderMessages == { "", "network timeout", "fatal: bad revision", "CONFLICT" }

ProviderReplies ==
    { Succeeds(cs) : cs \in ProviderChangeLists }
    \cup { Fails(Thrown(TRUE, m)) : m \in ProviderMessages }

ProbeIdle == probeIn = undefined /\ probeOut = undefined

Init ==
    /\ source = WorkingTree
    /\ target = undefined
    /\ diffResult = undefined
    /\ folderTree = undefined
    /\ repoOpen \in BOOLEAN
    /\ pending = EmptyBag
    /\ dirty = FALSE
    /\ fireSeen = undefined
    /\ lastCall = undefined
    /\ diffRequest = undefined
    /\ epoch = [renders |-> 0, calls |-> 0, clean |-> TRUE]
    /\ ProbeIdle

Apply(q) ==
    /\ source' = q.source
    /\ target' = q.target
    /\ diffResult' = q.diffResult
    /\ folderTree' = q.folderTree
    /\ dirty' = q.dirty
    /\ fireSeen' = q.fireSeen

\* a mutator has run: the history starts over
Invalidated(q, op) ==
    /\ Apply(q)
    /\ lastCall' = Some([op |-> op, hadResult |-> IsDefined(diffResult),
                         hadTree |-> IsDefined(folderTree)])
    /\ diffRequest' = IF IsDefined(q.diffResult) THEN diffRequest ELSE undefined
    /\ epoch' = [renders |-> 0, calls |-> 0, clean |-> pending = EmptyBag]

\* DiffCommands.changeSource
SetSource(s) ==
    /\ Invalidated(setSource(Fields, s), "setSource")
    /\ UNCHANGED << repoOpen, pending, probeVars >>

\* DiffCommands.changeTarget
SetTarget(t) ==
    /\ Invalidated(setTarget(Fields, t), "setTarget")
    /\ UNCHANGED << repoOpen, pending, probeVars >>

\* the branch-diff.refresh command and repo.state.onDidChange
Refresh ==
    /\ Invalidated(refresh(Fields), "refresh")
    /\ UNCHANGED << repoOpen, pending, probeVars >>

\* api.onDidOpenRepository / onDidCloseRepository -> onDidChangeRepository -> refresh()
RepositoryChanged ==
    /\ repoOpen' = ~repoOpen
    /\ Invalidated(refresh(Fields), "refresh")
    /\ UNCHANGED << pending, probeVars >>

\* getChildren has returned this promise
Returned(promise) == Some([op |-> "getChildren", result |-> promise])

upTo2(n) == IF n < 2 THEN n + 1 ELSE n

\* getChildren(): no repository
RenderNoRepository ==
    /\ ~repoOpen
    /\ lastCall' = Returned(Fulfilled(<< Plain("No Git repository found", "info") >>))
    /\ UNCHANGED << source, target, diffResult, folderTree, repoOpen, pending, dirty,
                    fireSeen, diffRequest, epoch, probeVars >>

\* getChildren() -> getRootItems(): no target, only the selectors
RenderNoTarget ==
    /\ repoOpen
    /\ beginRootItems(Fields).next = "return"
    /\ lastCall' = Returned(Fulfilled(beginRootItems(Fields).items))
    /\ dirty' = FALSE
    /\ epoch' = [epoch EXCEPT !.renders = upTo2(@)]
    /\ UNCHANGED << source, target, diffResult, folderTree, repoOpen, pending,
                    fireSeen, diffRequest, probeVars >>

\* getChildren() -> getRootItems(): the cached result, no suspension
RenderCached ==
    /\ repoOpen
    /\ beginRootItems(Fields).next = "rest"
    /\ LET rest == restOfRootItems(Fields, beginRootItems(Fields).items,
                                   repoRootOf(repoOpen))
       IN  /\ folderTree' = rest.folderTree
           /\ lastCall' = Returned(Fulfilled(rest.items))
    /\ dirty' = FALSE
    /\ epoch' = [epoch EXCEPT !.renders = upTo2(@)]
    /\ UNCHANGED << source, target, diffResult, repoOpen, pending, fireSeen,
                    diffRequest, probeVars >>

\* getChildren() -> getRootItems(): the collaborator is called and the render
\* is suspended until it answers
RenderFetch ==
    /\ repoOpen
    /\ beginRootItems(Fields).next = "await"
    /\ BagCardinality(pending) < MaxPending
    /\ LET request == [source |-> source, target |-> Get(target),
                       items |-> beginRootItems(Fields).items]
       IN  /\ pending' = pending (+) SetToBag({request})
           /\ lastCall' = Returned([state |-> "pending",
                                     call |-> collaboratorCall(source, Get(target))])
    /\ dirty' = FALSE
    /\ epoch' = [renders |-> upTo2(epoch.renders), calls |-> upTo2(epoch.calls),
                 clean |-> epoch.clean /\ pending = EmptyBag]
    /\ UNCHANGED << source, target, diffResult, folderTree, repoOpen, fireSeen,
                    diffRequest, probeVars >>

\* the collaborator answers a suspended render: getDiffWithConflictDetection
\* returns, line 562 stores its result and the render runs to its end.  The two
\* continuations run as microtasks of one turn of the event loop, so no command
\* or event handler runs between them: one step.
DiffReturns(request, reply) ==
    /\ BagIn(request, pending)
    /\ pending' = pending (-) SetToBag({request})
    /\ LET outcome == getDiffWithConflictDetection(request.source, request.target,
                                                   TRUE, reply)
           resumed == resumeRootItems(Fields, request.items, outcome,
                                      repoRootOf(repoOpen))
       IN  /\ Apply(resumed.fields)
           /\ lastCall' = Returned(resumed.returned)
           /\ diffRequest' = IF outcome.state = "fulfilled"
                             THEN Some([source |-> request.source,
                                        target |-> request.target, reply |-> reply])
                             ELSE diffRequest
    /\ UNCHANGED << repoOpen, epoch, probeVars >>

\* the elements the view asks the children of: Folder items of the trees shown
\* now or earlier, and a File item
Elements ==
    { folderItem(FolderNode(lastSegment(path)[1], path), RepoRootPath) :
        path \in { "src", "src/sub", "lib" } }
    \cup { folderItem(FolderNode("", ""), RepoRootPath),
           fileItem(Change("/r/README.md", "/r/README.md", "DELETED"),
                    Some("main"), WorkingTree) }

\* getChildren(element) without the check of lines 502-510
getChildrenUnchecked(p, element, repo) ==
    IF element.itemType = "folder" /\ Truthy(element.folderPath)
    THEN getFolderChildren(p, Get(element.folderPath), repoRootOf(repo))
    ELSE [items |-> << >>, folderTree |-> p.folderTree]

\* lines 501-522 for an element: the placeholder without a repository, the
\* children of a Folder item with a folder path, nothing for any other element;
\* the items returned and the folder tree left in the provider
getChildren(p, element, repo) ==
    IF ~repo
    THEN [items |-> << Plain("No Git repository found", "info") >>,
          folderTree |-> p.folderTree]
    ELSE IF element.itemType = "folder" /\ Truthy(element.folderPath)
    THEN getFolderChildren(p, Get(element.folderPath), repoRootOf(repo))
    ELSE [items |-> << >>, folderTree |-> p.folderTree]

\* the view asks for the children of an element
ExpandElement(element) ==
    /\ LET walked == repoOpen /\ element.itemType = "folder"
                               /\ Truthy(element.folderPath)
           expanded == getChildren(Fields, element, repoOpen)
           \* history: what getFolderChildren returned for each folder path
           \* since the last step that was not an expansion
           earlier == IF IsDefined(lastCall) /\ Get(lastCall).op = "getChildren(element)"
                      THEN Get(lastCall).history
                      ELSE << >>
       IN  /\ folderTree' = expanded.folderTree
           /\ lastCall' = Some([op |-> "getChildren(element)", element |-> element,
                                 result |-> Fulfilled(expanded.items),
                                 before |-> IF walked /\ Get(element.folderPath)
                                                              \in DOMAIN earlier
                                            THEN Some(earlier[Get(element.folderPath)])
                                            ELSE undefined,
                                 history |-> IF walked
                                             THEN (Get(element.folderPath)
                                                      :> expanded.items) @@ earlier
                                             ELSE earlier])
    /\ UNCHANGED << source, target, diffResult, repoOpen, pending, dirty, fireSeen,
                    diffRequest, epoch, probeVars >>

Next ==
    \/ \E s \in SourceSelections : SetSource(s)
    \/ \E t \in BranchNames : SetTarget(t)
    \/ Refresh
    \/ RepositoryChanged
    \/ RenderNoRepository
    \/ RenderNoTarget
    \/ RenderCached
    \/ RenderFetch
    \/ \E request \in BagToSet(pending), reply \in ProviderReplies :
          DiffReturns(request, reply)

Spec == Init /\ [][Next]_vars

-----------------------------------------------------------------------------
(* The view walking the tree: root renders, one at a time, and expansions of  *)
(* the elements shown, between any selections, refreshes and repository      *)
(* changes.  An expansion reads and writes only the folder tree (the order   *)
(* of a node's files), which a root render rebuilds at line 610 and never    *)
(* reads.                                                                    *)

\* what the collaborator answers in the runs of the view: as for the provider,
\* and changes that come in another order than they are shown in
ViewReplies ==
    ProviderReplies
    \cup { Succeeds(<< Change("/r/src/B.ts", "/r/src/B.ts", "UNTRACKED"),
                       Change("/r/src/a.ts", "/r/src/a.ts", "MODIFIED"),
                       Change("/r/lib/a.ts", "/r/lib/a.ts", "INDEX_RENAMED") >>) }

ViewNext ==
    \/ \E s \in SourceSelections : SetSource(s)
    \/ \E t \in BranchNames : SetTarget(t)
    \/ Refresh
    \/ RepositoryChanged
    \/ RenderNoRepository
    \/ RenderNoTarget
    \/ RenderCached
    \/ pending = EmptyBag /\ RenderFetch
    \/ \E request \in BagToSet(pending), reply \in ViewReplies :
          DiffReturns(request, reply)
    \/ \E element \in Elements : ExpandElement(element)

SpecView == Init /\ [][ViewNext]_vars

-----------------------------------------------------------------------------
(* One comparison: any selection with a target, any answer of the collaborator *)

DiffInit ==
    /\ source \in SourceSelections
    /\ target \in { Some(b) : b \in BranchNames }
    /\ diffResult = undefined
    /\ folderTree = undefined
    /\ repoOpen = TRUE
    /\ pending = EmptyBag
    /\ dirty = TRUE
    /\ fireSeen = Some([diffResult |-> undefined, folderTree |-> undefined])
    /\ lastCall = Some([op |-> "setTarget", hadResult |-> FALSE, hadTree |-> FALSE])
    /\ diffRequest = undefined
    /\ epoch = [renders |-> 0, calls |-> 0, clean |-> TRUE]
    /\ ProbeIdle

\* one render at a time: the next starts when the last has returned
DiffNext ==
    \/ pending = EmptyBag /\ RenderFetch
    \/ RenderCached
    \/ \E request \in BagToSet(pending), reply \in Replies : DiffReturns(request, reply)

SpecDiff == DiffInit /\ [][DiffNext]_vars

-----------------------------------------------------------------------------
(* The folder tree builder on its own: every list of changes, every root *)

\* the provider as constructed, left alone
ProviderIdle ==
    /\ source = WorkingTree
    /\ target = undefined
    /\ diffResult = undefined
    /\ folderTree = undefined
    /\ repoOpen = TRUE
    /\ pending = EmptyBag
    /\ dirty = FALSE
    /\ fireSeen = undefined
    /\ lastCall = undefined
    /\ diffRequest = undefined
    /\ epoch = [renders |-> 0, calls |-> 0, clean |-> TRUE]

TreeInit ==
    /\ ProviderIdle
    /\ probeIn \in { [changes |-> cs, repoRoot |-> r] : cs \in ChangeLists, r \in RepoRoots }
    /\ probeOut = undefined

BuildTree ==
    /\ probeOut = undefined
    /\ probeOut' = Some(buildFolderTree(probeIn.changes, probeIn.repoRoot))
    /\ UNCHANGED << probeIn, providerVars >>

RECURSIVE NodePaths(_)
\* the folder nodes of a tree, each as the names from the root down to it
NodePaths(node) ==
    { << >> } \cup UNION { { << k >> \o rest : rest \in NodePaths(node.children[k]) } :
                           k \in DOMAIN node.children }

\* createTreeItems on one folder node of the tree built
CreateTreeItems(parts) ==
    /\ IsDefined(probeOut)
    /\ LET node == Get(findFolder(Get(probeOut), parts))
       IN  lastCall' = Some([op |-> "createTreeItems", node |-> node,
                             result |-> createTreeItems(node, probeIn.repoRoot,
                                                        target, source)])
    /\ probeOut' = Some(sortFilesAt(Get(probeOut), parts))
    /\ UNCHANGED << probeIn, source, target, diffResult, folderTree, repoOpen, pending,
                    dirty, fireSeen, diffRequest, epoch >>

TreeNext ==
    \/ BuildTree
    \/ \E parts \in (IF IsDefined(probeOut) THEN NodePaths(Get(probeOut)) ELSE {}) :
          CreateTreeItems(parts)

SpecTree == TreeInit /\ [][TreeNext]_vars

-----------------------------------------------------------------------------
(* Properties *)

Range(f) == { f[i] : i \in DOMAIN f }

RECURSIVE Placements(_, _)
\* where the tree holds changes: the names of the folders from the root down,
\* the place in that folder's files, the change
Placements(node, folders) ==
    { [folders |-> folders, index |-> i, change |-> node.files[i]] :
        i \in 1..Len(node.files) }
    \cup UNION { Placements(node.children[k], Append(folders, node.children[k].name)) :
                 k \in DOMAIN node.children }

Occurrences(changes, c) == Cardinality({ i \in 1..Len(changes) : changes[i] = c })

\* C1: buildFolderTree places every input change in exactly one files list
\* (none lost, none duplicated), and the names of the folders from the root to
\* that list, followed by the file name, are the segments of the change's path
\* relative to the repository root.
C1_EveryChangePlacedOnce ==
    IsDefined(probeOut) =>
        LET changes == probeIn.changes
            placed == Placements(Get(probeOut), << >>)
        IN  /\ Cardinality(placed) = Len(changes)
            /\ \A c \in Range(changes) :
                  Cardinality({ pl \in placed : pl.change = c }) = Occurrences(changes, c)
            /\ \A pl \in placed :
                  LET segments == split(relativePath(pl.change.uri.fsPath,
                                                     probeIn.repoRoot), {"/", "\\"})
                  IN  pl.folders \o << segments[Len(segments)] >> = segments

\* a tree built from two changes, one directly at the root and one two folders down
C1_Witness ==
    /\ IsDefined(probeOut)
    /\ Len(probeIn.changes) = 2
    /\ \E pl \in Placements(Get(probeOut), << >>) : pl.folders = << >>
    /\ \E pl \in Placements(Get(probeOut), << >>) : pl.folders = << "src", "sub" >>

RootRenderReturned ==
    /\ IsDefined(lastCall)
    /\ Get(lastCall).op = "getChildren"
    /\ repoOpen
    /\ Get(lastCall).result.state = "fulfilled"

\* the root items the current fields render to
RenderOfCache ==
    restOfRootItems(Fields, headItems(Fields), repoRootOf(repoOpen)).items

\* C2: with a target set and no render overlapping another, the root renders
\* since the last setSource/setTarget/refresh have made exactly one collaborator
\* call between them, however many they are; a render after the first returns
\* what the cached result renders to; the first render after a setTarget makes
\* a fresh call.
C2_OneCallThenCached ==
    (Truthy(target) /\ epoch.clean /\ epoch.renders >= 1) =>
        /\ epoch.calls = 1
        /\ pending = EmptyBag => IsDefined(diffResult)
        /\ (epoch.renders = 2 /\ RootRenderReturned) =>
              Get(lastCall).result.value = RenderOfCache

\* a second render has returned from the cache, one call made
C2_Witness ==
    /\ Truthy(target)
    /\ epoch.clean
    /\ epoch.renders = 2
    /\ epoch.calls = 1
    /\ RootRenderReturned
    /\ Len(Get(diffResult).changes) > 0

\* C3: whenever a DiffResult is cached, it is the result of a collaborator call
\* made with the current source and the current target.
C3_CachedResultIsForCurrentPair ==
    IsDefined(diffResult) =>
        /\ IsDefined(diffRequest)
        /\ Get(diffRequest).source = source
        /\ Some(Get(diffRequest).target) = target

MutatorReturned ==
    IsDefined(lastCall) /\ Get(lastCall).op \in { "setSource", "setTarget", "refresh" }

\* C4: on return from setSource, setTarget or refresh the cached DiffResult and
\* the folder tree are both unset, the tree-changed signal has fired, and the
\* listeners saw both already unset when it fired.
C4_MutatorClearsThenFires ==
    MutatorReturned =>
        /\ diffResult = undefined
        /\ folderTree = undefined
        /\ dirty
        /\ fireSeen = Some([diffResult |-> undefined, folderTree |-> undefined])

\* setSource has returned, called with a result and a tree cached
C4_Witness ==
    /\ MutatorReturned
    /\ Get(lastCall).op = "setSource"
    /\ Get(lastCall).hadResult
    /\ Get(lastCall).hadTree

ItemTypes(items) == [i \in 1..Len(items) |-> items[i].itemType]

\* C5: the provider starts with source = working tree and no target; while the
\* target is unset no collaborator call is made or pending and nothing is
\* cached, and a root render returns exactly the Source and the Target item.
C5_NoTargetOnlySelectors ==
    /\ lastCall = undefined => (source = WorkingTree /\ target = undefined)
    /\ target = undefined =>
          /\ epoch.calls = 0
          /\ pending = EmptyBag
          /\ diffResult = undefined
          /\ (IsDefined(lastCall) /\ Get(lastCall).op = "getChildren" /\ repoOpen) =>
                /\ Get(lastCall).result.state = "fulfilled"
                /\ ItemTypes(Get(lastCall).result.value) = << "source", "target" >>

\* a root render without target, after the source was set to a branch
C5_Witness ==
    /\ target = undefined
    /\ source \in { Branch(b) : b \in BranchNames }
    /\ RootRenderReturned

\* the cached result is the outcome of a failed collaborator call
FailureCached ==
    IsDefined(diffResult) /\ IsDefined(diffRequest) /\ ~Get(diffRequest).reply.ok

\* the text the collaborator failed with
FailureText == Get(diffRequest).reply.thrown.text

BadRevisionPhrases == { "bad revision", "unknown revision", "not a valid object name" }

ConflictPhrases == { "conflict", "CONFLICT", "BOTH_MODIFIED" }

HasPhrase(text, phrases) == \E ph \in phrases : includes(text, ph)

\* C6: a failed collaborator call becomes a DiffResult with no changes and a
\* non-empty error message, and getChildren never returns a rejected promise.
C6_FailureBecomesErrorResult ==
    /\ (IsDefined(lastCall) /\ Get(lastCall).op = "getChildren") =>
          Get(lastCall).result.state # "rejected"
    /\ FailureCached =>
          /\ Get(diffResult).changes = << >>
          /\ IsDefined(Get(diffResult).error)
          /\ Get(Get(diffResult).error) # ""

\* C7: a failure whose text contains a bad-revision phrase gives no changes, no
\* conflict, and a message that the target branch was not found, advising a fetch.
C7_BadRevisionIsNotFound ==
    (FailureCached /\ HasPhrase(FailureText, BadRevisionPhrases)) =>
        /\ Get(diffResult).changes = << >>
        /\ ~Get(diffResult).hasConflict
        /\ IsDefined(Get(diffResult).error)
        /\ includes(Get(Get(diffResult).error),
                    "Branch not found: " \o Get(diffRequest).target)
        /\ includes(Get(Get(diffResult).error), "git fetch")

\* a failure with "not a valid object name" in its text is cached
C7_Witness ==
    /\ FailureCached
    /\ includes(FailureText, "not a valid object name")
    /\ ~includes(FailureText, "revision")

ConflictShown ==
    /\ Get(diffResult) =
          DiffResult(<< >>, TRUE, Some("Merge conflict detected between branches"))
    /\ RootRenderReturned =>
          ItemTypes(Get(lastCall).result.value)
              = << "source", "target", "separator", "conflict" >>

\* C8 as stated: a failure whose text contains a conflict phrase gives the
\* conflict result and a root render of one Conflict item after the separator.
C8_ConflictPhraseIsConflict ==
    (FailureCached /\ HasPhrase(FailureText, ConflictPhrases)) => ConflictShown

\* C8 as amended: a failure whose text contains a conflict phrase and no
\* bad-revision phrase gives conflict flag true, no changes, the fixed message,
\* and a root render of one Conflict item after the separator, no file or folder.
C8_ConflictWithoutBadRevision ==
    (/\ FailureCached
     /\ HasPhrase(FailureText, ConflictPhrases)
     /\ ~HasPhrase(FailureText, BadRevisionPhrases)) => ConflictShown

\* the render of a failure with BOTH_MODIFIED in its text has returned
C8_Witness ==
    /\ FailureCached
    /\ includes(FailureText, "BOTH_MODIFIED")
    /\ ~HasPhrase(FailureText, BadRevisionPhrases)
    /\ RootRenderReturned

NotFoundText(targetBranch) ==
    "Branch not found: " \o targetBranch \o ". Try running 'git fetch' first."

\* C9: a failure whose text has none of the phrases gives the Generic result,
\* no conflict, no changes, the text passed through unchanged; the not-found
\* and the conflict result come only from a text with one of their phrases.
C9_OtherTextIsGeneric ==
    FailureCached =>
        /\ (~HasPhrase(FailureText, BadRevisionPhrases \cup ConflictPhrases)) =>
              Get(diffResult) = DiffResult(<< >>, FALSE, Some(FailureText))
        /\ Get(diffResult).error = Some(NotFoundText(Get(diffRequest).target)) =>
              HasPhrase(FailureText, BadRevisionPhrases)
        /\ Get(diffResult).hasConflict => HasPhrase(FailureText, ConflictPhrases)

\* a failure with the text "network timeout" is cached
C9_Witness == FailureCached /\ FailureText = "network timeout"

KindOf(result, targetBranch) ==
    IF result.hasConflict THEN "Conflict"
    ELSE IF result.error = Some(NotFoundText(targetBranch)) THEN "NotFound"
    ELSE "Generic"

HasPhraseAnyCase(text, phrases) ==
    \E ph \in phrases : includes(toLowerCase(text), toLowerCase(ph))

\* C10: the phrases are matched without regard to letter case: a text with a
\* bad-revision phrase in any case is NotFound, else one with a conflict phrase
\* in any case is Conflict, else it is Generic.
C10_PhrasesMatchAnyCase ==
    FailureCached =>
        KindOf(Get(diffResult), Get(diffRequest).target)
            = IF HasPhraseAnyCase(FailureText, BadRevisionPhrases) THEN "NotFound"
              ELSE IF HasPhraseAnyCase(FailureText, ConflictPhrases) THEN "Conflict"
              ELSE "Generic"

\* a root render has just called the collaborator and is suspended in the call
FetchStarted ==
    /\ IsDefined(lastCall)
    /\ Get(lastCall).op = "getChildren"
    /\ Get(lastCall).result.state = "pending"

\* C11: the diff request uses the target as the base: with the working tree as
\* source the call is diffWith(target); with a branch as source it is
\* diffBetween(target, name), the target first and the source branch second.
C11_TargetIsBase ==
    FetchStarted =>
        Get(lastCall).result.call =
            IF source = WorkingTree
            THEN Some([method |-> "diffWith", args |-> << Get(target) >>])
            ELSE Some([method |-> "diffBetween",
                       args |-> << Get(target), source.branchName >>])

\* a render has called the collaborator for two different branches
C11_Witness ==
    /\ FetchStarted
    /\ source = Branch("origin/dev")
    /\ target = Some("main")

CreateTreeItemsReturned ==
    IsDefined(lastCall) /\ Get(lastCall).op = "createTreeItems"

Labels(items) == [i \in 1..Len(items) |-> items[i].label]

\* strictly ascending in the order of the names
Ascending(names) ==
    \A i, j \in 1..Len(names) : i < j => localeCompare(names[i], names[j]) < 0

NoTwoEqual(names) ==
    \A i, j \in 1..Len(names) : i # j => names[i] # names[j]

\* C12: the items createTreeItems returns for a folder node are one item per
\* child folder and per file, the Folder items before the File items, the
\* names of the folders strictly ascending, and the names of the files strictly
\* ascending when no two of them are equal.
C12_FoldersThenFilesAscending ==
    CreateTreeItemsReturned =>
        LET node == Get(lastCall).node
            items == Get(lastCall).result
            nFolders == Cardinality(DOMAIN node.children)
            folders == SubSeq(items, 1, nFolders)
            files == SubSeq(items, nFolders + 1, Len(items))
        IN  /\ Len(items) = nFolders + Len(node.files)
            /\ \A i \in 1..Len(folders) : folders[i].itemType = "folder"
            /\ \A i \in 1..Len(files) : files[i].itemType = "file"
            /\ { folders[i].label : i \in 1..Len(folders) } = DOMAIN node.children
            /\ Ascending(Labels(folders))
            /\ NoTwoEqual(Labels(files)) => Ascending(Labels(files))

\* two files of one folder returned in the other order than they were pushed
C12_Witness ==
    /\ CreateTreeItemsReturned
    /\ Len(Get(lastCall).node.files) = 2
    /\ LET result == Get(lastCall).result
       IN  /\ Len(result) = 2
           /\ result[1].change = Some(Get(lastCall).node.files[2])
           /\ result[2].change = Some(Get(lastCall).node.files[1])
           /\ result[1].label # result[2].label

\* getChildren(element) has returned with a repository open
ExpansionReturned ==
    /\ IsDefined(lastCall)
    /\ Get(lastCall).op = "getChildren(element)"
    /\ repoOpen

\* getFolderChildren has run: the element was a Folder item with a folder path
FolderExpanded ==
    /\ ExpansionReturned
    /\ Get(lastCall).element.itemType = "folder"
    /\ Truthy(Get(lastCall).element.folderPath)

ExpandedPath == split(Get(Get(lastCall).element.folderPath), {"/"})

\* C13: getFolderChildren walks the segments of folderPath from the root of
\* the current folder tree: it returns the empty sequence, without error, when
\* there is no folder tree or a segment has no child folder of that name, and
\* one item per child folder and file of the folder reached otherwise.
C13_MissingSegmentGivesEmpty ==
    FolderExpanded =>
        /\ Get(lastCall).result.state = "fulfilled"
        /\ IF folderTree = undefined \/ ExpandedPath \notin NodePaths(Get(folderTree))
           THEN Get(lastCall).result.value = << >>
           ELSE LET reached == Placements(Get(folderTree), << >>)
                    below == { q \in NodePaths(Get(folderTree)) :
                                 /\ Len(q) = Len(ExpandedPath) + 1
                                 /\ SubSeq(q, 1, Len(ExpandedPath)) = ExpandedPath }
                    filesThere == { pl \in reached : pl.folders = ExpandedPath }
                IN  Len(Get(lastCall).result.value)
                        = Cardinality(below) + Cardinality(filesThere)

\* 'src/sub' expanded on a tree with a folder 'src' that has no folder 'sub'
C13_Witness ==
    /\ FolderExpanded
    /\ ExpandedPath = << "src", "sub" >>
    /\ IsDefined(folderTree)
    /\ << "src" >> \in NodePaths(Get(folderTree))
    /\ << "src", "sub" >> \notin NodePaths(Get(folderTree))

\* what the claim compares of a sequence of display items
Shown(items) ==
    [i \in 1..Len(items) |->
        [itemType |-> items[i].itemType, label |-> items[i].label,
         folderPath |-> items[i].folderPath, change |-> items[i].change]]

\* the same folder was expanded before, with only expansions in between
ExpandedAgain == FolderExpanded /\ IsDefined(Get(lastCall).before)

\* C14: expanding the same folderPath again, with no setSource, setTarget,
\* refresh or root render in between (other folders may have been expanded),
\* returns the same items as before: kinds, names, folder paths and changes, in
\* the same order.
C14_ExpandingAgainGivesTheSame ==
    ExpandedAgain =>
        Shown(Get(lastCall).result.value) = Shown(Get(Get(lastCall).before))

\* 'src' expanded again after 'lib', its two files pushed in the other order
\* than they are shown
C14_Witness ==
    /\ ExpandedAgain
    /\ ExpandedPath = << "src" >>
    /\ "lib" \in DOMAIN Get(lastCall).history
    /\ LET items == Get(lastCall).result.value
           changes == Get(diffResult).changes
       IN  /\ Len(items) = 2
           /\ items[1].change = Some(changes[2])
           /\ items[2].change = Some(changes[1])

\* the state of the provider, by its target and its cached result
ProviderState ==
    IF ~Truthy(target) THEN "NoTarget"
    ELSE IF ~IsDefined(diffResult) THEN "TargetSet"
    ELSE IF Get(diffResult).hasConflict THEN "Conflicted"
    ELSE IF Truthy(Get(diffResult).error) THEN "Errored"
    ELSE "Loaded"

\* a getChildren() call has returned its items
RenderCompleted ==
    /\ IsDefined(lastCall)
    /\ Get(lastCall).op = "getChildren"
    /\ Get(lastCall).result.state = "fulfilled"

\* C15: Loaded, Errored and Conflicted are entered only from TargetSet, when a
\* root render returns with the outcome of its collaborator call; a setSource,
\* setTarget or refresh with a target set leads to TargetSet; the state changes
\* in no other way, also when renders and invalidations overlap.
C15_OnlyTheseTransitions ==
    [][ /\ (MutatorReturned' /\ Truthy(target')) => ProviderState' = "TargetSet"
        /\ ProviderState' # ProviderState =>
              \/ MutatorReturned' /\ ProviderState' = "TargetSet"
              \/ /\ ProviderState = "TargetSet"
                 /\ ProviderState' \in { "Loaded", "Errored", "Conflicted" }
                 /\ RenderCompleted' ]_vars

\* the one item shown without a repository
Placeholder(items) ==
    /\ Len(items) = 1
    /\ items[1].itemType = "info"
    /\ items[1].label = "No Git repository found"

\* C16: a getChildren call made while no repository is available, for the root
\* or for an element, whatever the source and the target, returns exactly one
\* informational placeholder item, fulfilled, and makes no collaborator call.
C16_NoRepositoryGivesPlaceholder ==
    [][ (/\ ~repoOpen
         /\ IsDefined(lastCall')
         /\ Get(lastCall').op \in { "getChildren", "getChildren(element)" }
         /\ BagCardinality(pending') >= BagCardinality(pending))
        => /\ Get(lastCall').result.state = "fulfilled"
           /\ Placeholder(Get(lastCall').result.value)
           /\ pending' = pending
           /\ epoch'.calls = epoch.calls
           /\ diffResult' = diffResult ]_vars

\* a folder expanded without a repository, a branch as source and a target set
C16_Witness ==
    /\ ~repoOpen
    /\ IsDefined(lastCall)
    /\ Get(lastCall).op = "getChildren(element)"
    /\ Get(lastCall).element.itemType = "folder"
    /\ Placeholder(Get(lastCall).result.value)
    /\ source = Branch("main")
    /\ target = Some("origin/dev")

\* the File items among the items createTreeItems returned
FileItemsReturned ==
    LET items == Get(lastCall).result
    IN  { items[i] : i \in { k \in 1..Len(items) : items[k].itemType = "file" } }

\* the marker of each status that has one
MarkerOf ==
    [st \in { "INDEX_ADDED", "UNTRACKED", "INDEX_DELETED", "DELETED",
              "INDEX_MODIFIED", "MODIFIED", "INDEX_RENAMED" } |->
        IF st \in { "INDEX_ADDED", "UNTRACKED" } THEN "A"
        ELSE IF st \in { "INDEX_DELETED", "DELETED" } THEN "D"
        ELSE IF st \in { "INDEX_MODIFIED", "MODIFIED" } THEN "M"
        ELSE "R"]

\* a File item is not expandable and carries one of the node's changes, each
\* change of the node being carried by as many items as it has entries
FileItemsCarryTheChanges ==
    LET node == Get(lastCall).node
        items == Get(lastCall).result
    IN  /\ \A it \in FileItemsReturned :
              /\ it.collapsibleState = "None"
              /\ IsDefined(it.change)
              /\ Get(it.change) \in Range(node.files)
        /\ \A c \in Range(node.files) :
              Cardinality({ i \in 1..Len(items) : items[i].change = Some(c) })
                  = Occurrences(node.files, c)

\* C17 as stated: every File item is non-expandable, carries its change, and
\* carries a one-letter marker, A for added or untracked, D for deleted, M for
\* modified, R for renamed, whatever the status of the change.
C17_EveryFileItemHasMarker ==
    CreateTreeItemsReturned =>
        /\ FileItemsCarryTheChanges
        /\ \A it \in FileItemsReturned :
              /\ IsDefined(it.description)
              /\ Get(it.description) \in { "A", "D", "M", "R" }
              /\ Get(it.change).status \in DOMAIN MarkerOf =>
                    Get(it.description) = MarkerOf[Get(it.change).status]

\* C17 as amended: every File item is non-expandable and carries its change;
\* it carries the marker A for INDEX_ADDED and UNTRACKED, D for INDEX_DELETED
\* and DELETED, M for INDEX_MODIFIED and MODIFIED, R for INDEX_RENAMED, and no
\* marker for any other status.
C17_MarkerForListedStatuses ==
    CreateTreeItemsReturned =>
        /\ FileItemsCarryTheChanges
        /\ \A it \in FileItemsReturned :
              IF Get(it.change).status \in DOMAIN MarkerOf
              THEN it.description = Some(MarkerOf[Get(it.change).status])
              ELSE it.description = undefined

\* the items of the folder 'src' holding a file modified on both sides
C17_Witness ==
    /\ CreateTreeItemsReturned
    /\ Get(lastCall).node.path = "src"
    /\ \E it \in FileItemsReturned :
          /\ Get(it.change).status = "BOTH_MODIFIED"
          /\ it.description = undefined

\* a path without the first n characters, and without one separator after them
WithoutPrefix(path, n) ==
    LET rest == SubSeq(path, n + 1, Len(path))
    IN  IF Len(rest) > 0 /\ SubSeq(rest, 1, 1) \in { "/", "\\" }
        THEN SubSeq(rest, 2, Len(rest))
        ELSE rest

UnderRoot(path, root) == Len(root) <= Len(path) /\ SubSeq(path, 1, Len(root)) = root

\* C18: buildFolderTree places every change; a change whose absolute path does
\* not start with the repository root lies in the folder reached by the
\* segments of its whole path, split on '/' and '\', the last segment left
\* out; one whose path starts with the root lies in the folder reached by the
\* segments of the path without the root and without one separator after it.
C18_PathOutsideRootTakenWhole ==
    IsDefined(probeOut) =>
        LET placed == Placements(Get(probeOut), << >>)
        IN  /\ \A c \in Range(probeIn.changes) : \E pl \in placed : pl.change = c
            /\ \A pl \in placed :
                  LET path == pl.change.uri.fsPath
                      taken == IF UnderRoot(path, probeIn.repoRoot)
                               THEN WithoutPrefix(path, Len(probeIn.repoRoot))
                               ELSE path
                  IN  pl.folders = popRest(split(taken, { "/", "\\" }))

\* '/x/src/a.ts' placed in a tree built for the root '/r'
C18_Witness ==
    /\ IsDefined(probeOut)
    /\ probeIn.repoRoot = "/r"
    /\ \E pl \in Placements(Get(probeOut), << >>) :
          /\ pl.change.uri.fsPath = "/x/src/a.ts"
          /\ pl.folders = << "", "x", "src" >>

RECURSIVE ChildPathsFollow(_, _)
\* below `node`, every child is stored under its own name and its path is the
\* parent's path, a '/', and its name; just its name below the root
ChildPathsFollow(node, isRoot) ==
    \A k \in DOMAIN node.children :
        LET child == node.children[k]
        IN  /\ child.name = k
            /\ child.path = IF isRoot THEN k ELSE node.path \o "/" \o k
            /\ ChildPathsFollow(child, FALSE)

\* C19: in every tree buildFolderTree returns the root's path is empty, every
\* child is stored under its own name, and its path is its parent's path + '/'
\* + its name, or its name alone when the parent is the root.
C19_ChildPathExtendsParentPath ==
    IsDefined(probeOut) =>
        /\ Get(probeOut).path = ""
        /\ ChildPathsFollow(Get(probeOut), TRUE)

\* collaborator calls that have not settled
CallsInFlight == BagCardinality(pending)

\* C20: a failed collaborator call is not retried: a call that settles is gone
\* and leaves a cached result, no new call in its place; while the result of a
\* failed call is cached no root render calls the collaborator; the next call
\* comes only after setSource, setTarget or refresh has cleared the cache.
C20_FailureIsNotRetried ==
    [][ /\ CallsInFlight' < CallsInFlight =>
              /\ CallsInFlight' = CallsInFlight - 1
              /\ IsDefined(diffResult')
        /\ FailureCached => CallsInFlight' <= CallsInFlight
        /\ (FailureCached /\ ~IsDefined(diffResult')) => MutatorReturned' ]_vars

\* a second root render has shown the cached result of a failed call, no
\* further call made
C20_Witness ==
    /\ FailureCached
    /\ IsDefined(Get(diffResult).error)
    /\ epoch.clean
    /\ epoch.renders = 2
    /\ epoch.calls = 1
    /\ RootRenderReturned
    /\ pending = EmptyBag

\* the root render that has just returned reports a number of changed files
CountReported ==
    /\ RootRenderReturned
    /\ IsDefined(diffResult)
    /\ \E i \in 1..Len(Get(lastCall).result.value) :
          /\ Get(lastCall).result.value[i].itemType = "info"
          /\ Get(lastCall).result.value[i].label
                = ToString(Len(Get(diffResult).changes)) \o " file"
                    \o (IF Len(Get(diffResult).changes) > 1 THEN "s" ELSE "")
                    \o " changed"

RECURSIVE FilesReached(_)
\* the changes of the File items the view reaches from `items`, calling
\* getChildren on every Folder item it is handed
FilesReached(items) ==
    IF items = << >> THEN << >>
    ELSE LET item == Head(items)
             here == IF item.itemType = "file" THEN << Get(item.change) >>
                     ELSE IF item.itemType = "folder"
                     THEN FilesReached(getChildren(Fields, item, repoOpen).items)
                     ELSE << >>
         IN  here \o FilesReached(Tail(items))

\* C21: after a root render that reports 'N files changed', each of the N
\* changes is carried by exactly one File item among those the view reaches
\* from the root items by calling getChildren on the Folder items returned.
C21_EveryChangeReachable ==
    CountReported =>
        LET changes == Get(diffResult).changes
            reached == FilesReached(Get(lastCall).result.value)
        IN  /\ Len(reached) = Len(changes)
            /\ \A c \in Range(changes) :
                  Occurrences(reached, c) = Occurrences(changes, c)

RECURSIVE FilesInOrder(_)
\* a tree with the files of every folder in the order they are shown in
FilesInOrder(node) ==
    [node EXCEPT !.files = sortedFilesOf(node),
                 !.children = [k \in DOMAIN node.children |->
                                  FilesInOrder(node.children[k])]]

\* C22: a folder tree is materialized only while a DiffResult is cached that
\* has no error, no conflict and at least one change, and it is the tree built
\* from the changes of that result (for the repository root, or for no root
\* if the repository had gone when it was built), also after overlapping
\* root renders.
C22_TreeBelongsToCachedResult ==
    IsDefined(folderTree) =>
        /\ IsDefined(diffResult)
        /\ ~IsDefined(Get(diffResult).error)
        /\ ~Get(diffResult).hasConflict
        /\ Len(Get(diffResult).changes) > 0
        /\ \E root \in { RepoRootPath, "" } :
              FilesInOrder(Get(folderTree))
                  = FilesInOrder(buildFolderTree(Get(diffResult).changes, root))

\* C23: the target and the source in the showFileDiff arguments of a File item
\* a root render returns are the pair the diff that produced the item's change
\* was requested with, also when setSource or setTarget ran while the request
\* was pending.
C23_DiffCommandCarriesRequestedPair ==
    (RenderCompleted /\ IsDefined(diffRequest)) =>
        \A i \in 1..Len(Get(lastCall).result.value) :
            LET item == Get(lastCall).result.value[i]
            IN  item.itemType = "file" =>
                    /\ Get(item.command).command = "branch-diff.showFileDiff"
                    /\ Get(item.command).arguments[2] = Some(Get(diffRequest).target)
                    /\ Get(item.command).arguments[3] = Get(diffRequest).source

\* the text of the failure has a bad-revision phrase and a conflict phrase
BothKindsOfPhrase ==
    /\ FailureCached
    /\ HasPhrase(FailureText, BadRevisionPhrases)
    /\ HasPhrase(FailureText, ConflictPhrases)

\* C24: a failure whose text contains both a bad-revision phrase and a
\* conflict phrase is classified as bad revision: conflict flag false, no
\* changes, the branch-not-found message; never as conflict.
C24_BadRevisionBeforeConflict ==
    BothKindsOfPhrase =>
        Get(diffResult)
            = DiffResult(<< >>, FALSE, Some(NotFoundText(Get(diffRequest).target)))

\* a failure whose text has the conflict phrase first and the bad-revision
\* phrase after it, rendered
C24_Witness ==
    /\ BothKindsOfPhrase
    /\ FailureText = "CONFLICT" \o "unknown revision"
    /\ RootRenderReturned

\* C25: refresh leaves the source and the target as they are, setSource leaves
\* the target, setTarget leaves the source, and root renders and folder
\* expansions leave both: a target once set stays set, and the selection
\* changes only through setSource and setTarget.
C25_SelectionChangesOnlyBySetters ==
    [][ LET op == Get(lastCall').op
        IN  /\ op = "refresh" => (source' = source /\ target' = target)
            /\ op = "setSource" => target' = target
            /\ op = "setTarget" => source' = source
            /\ op \in { "getChildren", "getChildren(element)" } =>
                  (source' = source /\ target' = target)
            /\ IsDefined(target) => IsDefined(target') ]_vars

\* refresh has returned with a branch as source, a target set and a result cached
C25_Witness ==
    /\ MutatorReturned
    /\ Get(lastCall).op = "refresh"
    /\ Get(lastCall).hadResult
    /\ source = Branch("origin/dev")
    /\ target = Some("main")

====
